---- MODULE Spec2Model ----
(***************************************************************************)
(* A model of the query fan-out code of wagov/python-squ.                  *)
(*                                                                         *)
(* Two implementations of analytics_query live in the repository:          *)
(*   src/main.py     (op = "main"): sorts the workspaces, slices them into *)
(*                   chunks of chunkSize, runs one azcli call per chunk    *)
(*                   through executor.map and concatenates the results;    *)
(*   src/squ/api.py  (op = "api"):  one grouped azcli call over the whole  *)
(*                   list, and on any failure one call per workspace on a  *)
(*                   pool of 8 workers, each row stamped with TenantId.    *)
(* kql2df (src/squ/api.py, op = "kql2df") wraps the api.py engine with a   *)
(* retry on ReadTimeout and a placeholder table.                           *)
(* ingest_datalake_hot (src/squ/api.py, SpecIngest) shuffles its ingest    *)
(* queries, submits each to a pool of 6 workers, polls until none runs,    *)
(* and concatenates the result tables of the queries that did not fail.    *)
(***************************************************************************)
EXTENDS Integers, Sequences, FiniteSets, TLC

\* ------------------------------------------------------------------ bounds
\* longest list of the Asc/Desc/Rot families (more than chunkSize)
MaxWs == 21
\* identifiers used by the lists enumerated in every order
MaxSmallId == 3
\* longest list whose fallback is explored under every interleaving and failure
MaxFallbackWs == 2
\* most rows one workspace holds
MaxRows == 2
\* longest query text of a kql2df call
MaxKqlLen == 2
\* longest workspace list of a kql2df call
MaxKqlWs == 2
\* analytics_query invocations of main.py in one behaviour
MaxQueries == 2
\* longest list of ingest queries (more than ingest_workers)
MaxJobs == 7
\* longest list of ingest queries explored in every order, with every
\* combination of outcomes and under every interleaving
MaxPermJobs == 3
\* most results handed to upload_results
MaxUploads == 2
\* times of day a TimeGenerated can have
MaxTick == 2
\* longest list list_workspaces returns to simple_query
MaxListed == 2
\* longest name simple_query is given
MaxNameLen == 2
\* most incidents the SecurityIncident table holds
MaxIncidents == 3
\* latest TimeGenerated of an incident
MaxTime == 3
\* requests one client sends to the HTTP application
MaxRequests == 2

\* ------------------------------------------------------- program constants
chunkSize == 20
max_workers == 8
max_attempts == 5
ingest_workers == 6
upload_workers == 32
incident_rows == 1000

\* ----------------------------------------------------------------- helpers
Min(a, b) == IF a < b THEN a ELSE b

Range(s) == {s[i] : i \in DOMAIN s}

RECURSIVE Concat(_)
\* the concatenation of a sequence of sequences
Concat(ss) == IF ss = <<>> THEN <<>> ELSE Head(ss) \o Concat(Tail(ss))

\* The lists a caller passes: every duplicate-free list over 1..MaxSmallId, and
\* for every length around chunkSize, up to MaxWs, the ascending, descending
\* and rotated list.
DupFree(S) ==
    UNION {{s \in [1..n -> S] : \A i, j \in 1..n : i # j => s[i] # s[j]} :
           n \in 0..Cardinality(S)}

Asc(n) == [i \in 1..n |-> i]

Desc(n) == [i \in 1..n |-> n + 1 - i]

Rot(n) == [i \in 1..n |-> (i % n) + 1]

WsInputs ==
    DupFree(1..MaxSmallId)
        \cup UNION {{Asc(n), Desc(n), Rot(n)} : n \in (chunkSize - 1)..MaxWs}

\* ---------------------------------------------------------------- variables
VARIABLES
    op,            \* which entry point the behaviour runs: "main", "api", "kql2df"
    workspaces,    \* the workspaces argument
    query,         \* the query argument, a sequence of characters (see KqlTexts)
    timespan,      \* the timespan argument
    group_queries, \* api.py: the group_queries argument
    dry_run,       \* api.py: the dry_run argument
    rowSeed,       \* the backend's data: how many rows each workspace holds (see NRows)
    tenantMode,    \* the backend's rows: TenantId "absent", "own" or "other"
    pc,            \* the position of analytics_query
    exc,           \* the exception analytics_query raised, "none" if none
    chunks,        \* main.py: the chunks
    gst,           \* api.py: the grouped call: "none", "running", "ok", "timeout", "fatal"
    cmdtext,       \* api.py: the command text a dry run returns, <<>> if none
    futures,       \* the calls handed to the ThreadPoolExecutor, in order
    nxt,           \* index of the future whose result is consumed next
    results,       \* the value analytics_query builds and returns
    ngroup,        \* azcli calls issued naming a whole chunk / the whole list
    nindiv,        \* azcli calls issued for one workspace of the fallback
    queries,       \* main.py: analytics_query invocations so far
    prevChunks,    \* main.py: the chunks of the previous invocation
    kpc,           \* the position of kql2df
    attempt,       \* kql2df: the attempt argument of the current frame
    nattempts,     \* kql2df: analytics_query invocations so far
    naps,          \* kql2df: the time.sleep durations so far
    kdata,         \* kql2df: the table returned
    kcause,        \* kql2df: what ended the call: "rows", "empty", "convert", "error",
                   \* "timeout"; "none" while it runs
    ipc,             \* the position of ingest_datalake_hot
    iexc,            \* the exception ingest_datalake_hot raised, "none" if none
    ingest_queries,  \* the list of ingest queries (each an identifier)
    adx,             \* the backend: for each ingest query, how adx_query ends ("ok", "fatal")
    ingest_futures,  \* the futures list: (query, future) in submission order
    scan,            \* the future whose running() the poll reads next
    running,         \* the futures the current poll has seen running
    inxt,            \* the future whose exception() is consulted next
    ingest_results,  \* the results list: one table per query that did not fail
    errors,          \* the queries logged as failed, in log order
    df,              \* the concatenated table and its numeric sum, <<>> before
    upc,             \* the position of upload_results
    upresults,       \* upload_results: the results argument
    blob,            \* the datalake: for each path the TimeGenerated of its content
    blob0,           \* the datalake as it was before upload_results
    upfutures,       \* the datalake_json calls handed to the ThreadPoolExecutor
    spc,             \* the position of simple_query
    listed,          \* what list_workspaces returns
    name,            \* simple_query: the name argument, a sequence of characters
    sidx,            \* simple_query: the workspace the loop is at
    scalls,          \* simple_query: the workspace lists handed to analytics_query
    jpc,             \* the position of update_jira_issues
    SecurityIncident,\* for each incident the TimeGenerated of its latest record
    after,           \* update_jira_issues: the watermark
    incidents_df,    \* update_jira_issues: df, the incidents last returned
    synced,          \* the incidents update_jira was given so far
    apc,             \* the position of authenticate_request
    secret_api_token,\* API_TOKEN of the environment, None if unset
    query_params,    \* the request's auth_token query parameter, None if absent
    cookies,         \* the request's auth_token cookie, None if absent
    response,        \* the response: status_code, set_cookie
    handled,         \* whether call_next ran the endpoint for this request
    nrequests        \* requests received so far

qvars == <<op, workspaces, query, timespan, group_queries, dry_run, rowSeed, tenantMode,
           pc, exc, chunks, gst, cmdtext, futures, nxt, results, ngroup, nindiv,
           queries, prevChunks>>

\* the arguments of a call and the backend's data
args == <<op, workspaces, query, timespan, group_queries, dry_run, rowSeed, tenantMode>>

kvars == <<kpc, attempt, nattempts, naps, kdata, kcause>>

ivars == <<ipc, iexc, ingest_queries, adx, ingest_futures, scan, running, inxt,
           ingest_results, errors, df>>

uvars == <<upc, upresults, blob, blob0, upfutures>>

svars == <<spc, listed, name, sidx, scalls>>

jvars == <<jpc, SecurityIncident, after, incidents_df, synced>>

avars == <<apc, secret_api_token, query_params, cookies, response, handled, nrequests>>

\* the entry points outside the query engines and the ingestion scheduler
xvars == <<uvars, svars, jvars, avars>>

vars == <<qvars, kvars, ivars, xvars>>

KqlIdle ==
    kpc = "idle" /\ attempt = 0 /\ nattempts = 0 /\ naps = <<>> /\ kdata = <<>> /\ kcause = "none"

IngestIdle ==
    /\ ipc = "idle" /\ iexc = "none" /\ ingest_queries = <<>> /\ adx = <<>>
    /\ ingest_futures = <<>> /\ scan = 1 /\ running = 0 /\ inxt = 1
    /\ ingest_results = <<>> /\ errors = <<>> /\ df = <<>>

\* Python's None
None == "<None>"

UploadIdle ==
    upc = "idle" /\ upresults = <<>> /\ blob = <<>> /\ blob0 = <<>> /\ upfutures = <<>>

SimpleIdle == spc = "idle" /\ listed = <<>> /\ name = <<>> /\ sidx = 1 /\ scalls = <<>>

JiraIdle ==
    /\ jpc = "idle" /\ SecurityIncident = <<>> /\ after = 0 /\ incidents_df = <<>>
    /\ synced = {}

\* no response yet
NoResponse == [status_code |-> 0, set_cookie |-> None]

AuthIdle ==
    /\ apc = "idle" /\ secret_api_token = None /\ query_params = None /\ cookies = None
    /\ response = NoResponse /\ handled = FALSE /\ nrequests = 0

ExtraIdle == UploadIdle /\ SimpleIdle /\ JiraIdle /\ AuthIdle

\* ------------------------------------------------------------ the backend
TenantModes == {"absent", "own", "other"}

\* no workspace holds a row when rowSeed is 0; otherwise the workspaces hold
\* different numbers of rows, from 0 to MaxRows
NRows(w) == IF rowSeed = 0 THEN 0 ELSE (w + rowSeed) % (MaxRows + 1)

\* The k-th row workspace w holds. TenantId is present unless tenantMode is
\* "absent"; with "other" it names something that is not the workspace (0).
BackendRow(w, k) ==
    LET base == [ws |-> w, k |-> k, Owner |-> [email |-> w]]
    IN  IF tenantMode = "absent" THEN base
        ELSE [f \in DOMAIN base \cup {"TenantId"} |->
                 IF f = "TenantId" THEN (IF tenantMode = "own" THEN w ELSE 0)
                 ELSE base[f]]

DataOf(w) == [k \in 1..NRows(w) |-> BackendRow(w, k)]

\* What a successful azcli query naming `targets` returns: the rows of every
\* target, in target order.
Backend(targets) == Concat([i \in DOMAIN targets |-> DataOf(targets[i])])

\* ---------------------------------------------------------- query texts
\* A query text is a sequence of characters. A reference prefix ("kql/",
\* "kql://", "https:") is one element, and only the first one.
KqlChars == {"S", " ", "\n", "\t"}

Prefixes == {"kql/", "kql://", "https:"}

Strings(n) == UNION {[1..m -> KqlChars] : m \in 0..n}

KqlTexts(n) ==
    Strings(n) \cup {<<p>> \o t : p \in Prefixes \ {"https:"}, t \in Strings(n - 1)}

startswith(q, p) == q # <<>> /\ q[1] = p

\* main.py loadkql: the outcomes of loading q. A local file is opened and a
\* URL is fetched with curl; both can fail.
loadkql(q) ==
    IF startswith(q, "kql/") \/ startswith(q, "https:") THEN {"ok", "fatal"} ELSE {"ok"}

\* api.py load_kql: the outcomes of loading q. A package resource can be
\* missing; requests.get(url, timeout=10) can time out or fail otherwise.
load_kql(q) ==
    IF startswith(q, "kql/") THEN {"ok", "fatal"}
    ELSE IF startswith(q, "kql://") THEN {"ok", "timeout", "fatal"}
    ELSE {"ok"}

\* ------------------------------------------------- main.py analytics_query
\* the bug of slicing the list as it was passed
unsorted(s) == s

sorted(s) == SortSeq(s, LAMBDA a, b : a < b)

RECURSIVE range_le(_, _, _)
\* the bug of a range that includes its stop
range_le(start, stop, step) ==
    IF start > stop THEN <<>> ELSE <<start>> \o range_le(start + step, stop, step)

RECURSIVE range(_, _, _)
\* Python's range(start, stop, step) as a sequence
range(start, stop, step) ==
    IF start >= stop THEN <<>> ELSE <<start>> \o range(start + step, stop, step)

\* the bug of a slice that includes its end
slice_incl(s, a, b) == SubSeq(s, a + 1, Min(b + 1, Len(s)))

\* Python's s[a:b] for 0 <= a
slice(s, a, b) == SubSeq(s, a + 1, Min(b, Len(s)))

\* the bug of one chunk for each workspace
ChunkEach(ws) == [j \in DOMAIN ws |-> <<sorted(ws)[j]>>]

\* [sorted(workspaces)[x : x + chunkSize] for x in range(0, len(workspaces), chunkSize)]
Chunks(ws) ==
    LET xs == range(0, Len(ws), chunkSize)
    IN  [j \in DOMAIN xs |-> slice(sorted(ws), xs[j], xs[j] + chunkSize)]

Future(t) == [target |-> t, st |-> "queued"]

\* the bug of taking a result without waiting for the call
Unawaited(f) == TRUE

Finished(f) == f.st \in {"ok", "none", "timeout", "fatal"}

\* loadkql, the chunks and the cmds; executor.map submits every cmd at once
MainLoad ==
    /\ op = "main" /\ pc = "start"
    /\ \E o \in loadkql(query) :
         IF o = "ok"
         THEN /\ chunks' = Chunks(workspaces)
              /\ futures' = [j \in DOMAIN Chunks(workspaces) |-> Future(Chunks(workspaces)[j])]
              /\ pc' = "map"
              /\ exc' = exc
         ELSE /\ pc' = "raised"
              /\ exc' = "loader"
              /\ UNCHANGED <<chunks, futures>>
    /\ UNCHANGED <<args, gst, cmdtext, nxt, results, ngroup, nindiv, queries, prevChunks, kvars, ivars, xvars>>

\* a worker of the default pool takes the oldest queued cmd and calls azcli
MainStart ==
    /\ op = "main" /\ pc = "map"
    /\ \E i \in DOMAIN futures :
         /\ futures[i].st = "queued"
         /\ \A j \in 1..(i - 1) : futures[j].st # "queued"
         /\ futures' = [futures EXCEPT ![i].st = "running"]
    /\ ngroup' = ngroup + 1
    /\ UNCHANGED <<args, pc, exc, chunks, gst, cmdtext, nxt, results, nindiv, queries,
                   prevChunks, kvars, ivars, xvars>>

\* azcli returns the parsed rows, None for empty output, or check_output raises
MainFinish ==
    /\ op = "main" /\ pc = "map"
    /\ \E i \in DOMAIN futures, o \in {"ok", "none", "fatal"} :
         /\ futures[i].st = "running"
         /\ futures' = [futures EXCEPT ![i].st = o]
    /\ UNCHANGED <<args, pc, exc, chunks, gst, cmdtext, nxt, results, ngroup, nindiv,
                   queries, prevChunks, kvars, ivars, xvars>>

\* the bug of putting each result in front of the earlier ones
MainCollectPrepend ==
    /\ op = "main" /\ pc = "map"
    /\ IF nxt > Len(futures)
       THEN /\ pc' = "done"
            /\ UNCHANGED <<exc, nxt, results>>
       ELSE /\ Finished(futures[nxt])
            /\ IF futures[nxt].st = "fatal"
               THEN /\ pc' = "raised"
                    /\ exc' = "azcli"
                    /\ UNCHANGED <<nxt, results>>
               ELSE /\ results' = IF futures[nxt].st = "ok"
                                  THEN Backend(futures[nxt].target) \o results
                                  ELSE results
                    /\ nxt' = nxt + 1
                    /\ UNCHANGED <<pc, exc>>
    /\ UNCHANGED <<args, chunks, gst, cmdtext, futures, ngroup, nindiv, queries,
                   prevChunks, kvars, ivars, xvars>>

\* for result in executor.map(...): if result: results += result
\* (the iterator re-raises the exception of a failed call)
MainCollect ==
    /\ op = "main" /\ pc = "map"
    /\ IF nxt > Len(futures)
       THEN /\ pc' = "done"
            /\ UNCHANGED <<exc, nxt, results>>
       ELSE /\ Finished(futures[nxt])
            /\ IF futures[nxt].st = "fatal"
               THEN /\ pc' = "raised"
                    /\ exc' = "azcli"
                    /\ UNCHANGED <<nxt, results>>
               ELSE /\ results' = IF futures[nxt].st = "ok"
                                  THEN results \o Backend(futures[nxt].target)
                                  ELSE results
                    /\ nxt' = nxt + 1
                    /\ UNCHANGED <<pc, exc>>
    /\ UNCHANGED <<args, chunks, gst, cmdtext, futures, ngroup, nindiv, queries,
                   prevChunks, kvars, ivars, xvars>>

\* the caller queries the same set of workspaces again, listed in any order
MainAgain ==
    /\ op = "main" /\ pc = "done" /\ queries < MaxQueries
    /\ \E l \in WsInputs :
         /\ Range(l) = Range(workspaces)
         /\ workspaces' = l
    /\ prevChunks' = chunks
    /\ queries' = queries + 1
    /\ pc' = "start" /\ exc' = "none"
    /\ chunks' = <<>> /\ futures' = <<>> /\ nxt' = 1 /\ results' = <<>>
    /\ ngroup' = 0 /\ nindiv' = 0
    /\ UNCHANGED <<op, query, timespan, group_queries, dry_run, rowSeed, tenantMode, gst,
                   cmdtext, kvars, ivars, xvars>>

\* ------------------------------------------------ api.py analytics_query
InApi == op \in {"api", "kql2df"}

\* the bug of stamping only a row that has no TenantId
TagIfAbsent(row, workspace) ==
    IF "TenantId" \in DOMAIN row THEN row
    ELSE [f \in DOMAIN row \cup {"TenantId"} |-> IF f = "TenantId" THEN workspace ELSE row[f]]

\* the bug of stamping every row with the first workspace
TagFirst(row, workspace) ==
    [f \in DOMAIN row \cup {"TenantId"} |-> IF f = "TenantId" THEN workspaces[1] ELSE row[f]]

\* item.update({"TenantId": workspace})
Tag(row, workspace) ==
    [f \in DOMAIN row \cup {"TenantId"} |-> IF f = "TenantId" THEN workspace ELSE row[f]]

\* For a list of at most MaxFallbackWs workspaces every interleaving and every
\* outcome of the individual calls is explored. For a longer list the pool
\* runs full: a call ends only when no queued call can start, the calls end in
\* the order they started, each is consumed before the next ends, and only the
\* call for the first listed workspace can fail.
AllSchedules == Len(workspaces) <= MaxFallbackWs

\* the individual calls that are running
InFlight == {j \in DOMAIN futures : futures[j].st = "running"}

\* no queued call can start: none is queued or every worker is taken
PoolFull ==
    \/ \A j \in DOMAIN futures : futures[j].st # "queued"
    \/ Cardinality(InFlight) = max_workers

\* query = load_kql(query)
ApiLoad ==
    /\ InApi /\ pc = "start"
    /\ \E o \in load_kql(query) :
         /\ pc' = IF o = "ok" THEN "branch" ELSE "raised"
         /\ exc' = IF o = "ok" THEN exc ELSE IF o = "timeout" THEN "ReadTimeout" ELSE "loader"
    /\ UNCHANGED <<args, chunks, gst, cmdtext, futures, nxt, results, ngroup, nindiv,
                   queries, prevChunks, kvars, ivars, xvars>>

\* the bug of leaving out the test for a list of one workspace
ApiBranchNoSingle ==
    /\ InApi /\ pc = "branch"
    /\ IF group_queries \/ dry_run
       THEN IF workspaces = <<>>
            THEN /\ pc' = "raised" /\ exc' = "IndexError"
                 /\ UNCHANGED <<gst, cmdtext, ngroup>>
            ELSE IF dry_run
            THEN /\ pc' = "done"
                 /\ cmdtext' = <<"az", query, timespan, Head(workspaces)>> \o Tail(workspaces)
                 /\ UNCHANGED <<exc, gst, ngroup>>
            ELSE /\ pc' = "group"
                 /\ gst' = "running"
                 /\ ngroup' = ngroup + 1
                 /\ UNCHANGED <<exc, cmdtext>>
       ELSE /\ pc' = "submit"
            /\ UNCHANGED <<exc, gst, cmdtext, ngroup>>
    /\ UNCHANGED <<args, chunks, futures, nxt, results, nindiv, queries, prevChunks, kvars, ivars, xvars>>

\* the bug of a dry run that goes on to make the grouped call
ApiBranchDryCalls ==
    /\ InApi /\ pc = "branch"
    /\ IF group_queries \/ Len(workspaces) = 1 \/ dry_run
       THEN IF workspaces = <<>>
            THEN /\ pc' = "raised" /\ exc' = "IndexError"
                 /\ UNCHANGED <<gst, cmdtext, ngroup>>
            ELSE /\ pc' = "group"
                 /\ gst' = "running"
                 /\ ngroup' = ngroup + 1
                 /\ cmdtext' = IF dry_run
                               THEN <<"az", query, timespan, Head(workspaces)>>
                                        \o Tail(workspaces)
                               ELSE cmdtext
                 /\ exc' = exc
       ELSE /\ pc' = "submit"
            /\ UNCHANGED <<exc, gst, cmdtext, ngroup>>
    /\ UNCHANGED <<args, chunks, futures, nxt, results, nindiv, queries, prevChunks, kvars, ivars, xvars>>

\* if group_queries or len(workspaces) == 1 or dry_run: build cmd from
\* workspaces[0] and workspaces[1:]; a dry run returns the text, otherwise the
\* grouped azcli call is made. Else: straight to the individual queries.
ApiBranch ==
    /\ InApi /\ pc = "branch"
    /\ IF group_queries \/ Len(workspaces) = 1 \/ dry_run
       THEN IF workspaces = <<>>
            THEN /\ pc' = "raised" /\ exc' = "IndexError"
                 /\ UNCHANGED <<gst, cmdtext, ngroup>>
            ELSE IF dry_run
            THEN /\ pc' = "done"
                 /\ cmdtext' = <<"az", query, timespan, Head(workspaces)>> \o Tail(workspaces)
                 /\ UNCHANGED <<exc, gst, ngroup>>
            ELSE /\ pc' = "group"
                 /\ gst' = "running"
                 /\ ngroup' = ngroup + 1
                 /\ UNCHANGED <<exc, cmdtext>>
       ELSE /\ pc' = "submit"
            /\ UNCHANGED <<exc, gst, cmdtext, ngroup>>
    /\ UNCHANGED <<args, chunks, futures, nxt, results, nindiv, queries, prevChunks, kvars, ivars, xvars>>

\* the bug of falling back after a timeout only and re-raising anything else
ApiGroupReraise ==
    /\ InApi /\ pc = "group"
    /\ \E o \in {"ok", "timeout", "fatal"} :
         /\ gst' = o
         /\ results' = IF o = "ok" THEN Backend(workspaces) ELSE results
         /\ pc' = IF o = "ok" THEN "done" ELSE IF o = "timeout" THEN "submit" ELSE "raised"
         /\ exc' = IF o = "fatal" THEN "azcli" ELSE exc
    /\ UNCHANGED <<args, chunks, cmdtext, futures, nxt, ngroup, nindiv, queries,
                   prevChunks, kvars, ivars, xvars>>

\* try: return azcli(cmd); except Exception: warn and fall back
ApiGroupReturn ==
    /\ InApi /\ pc = "group"
    /\ \E o \in {"ok", "timeout", "fatal"} :
         /\ gst' = o
         /\ IF o = "ok"
            THEN /\ results' = Backend(workspaces)
                 /\ pc' = "done"
            ELSE /\ pc' = "submit"
                 /\ UNCHANGED results
    /\ UNCHANGED <<args, exc, chunks, cmdtext, futures, nxt, ngroup, nindiv, queries,
                   prevChunks, kvars, ivars, xvars>>

\* the bug of falling back for the first chunkSize workspaces only
ApiSubmitChunk ==
    /\ InApi /\ pc = "submit"
    /\ futures' = [i \in 1..Min(chunkSize, Len(workspaces)) |-> Future(<<workspaces[i]>>)]
    /\ nxt' = 1
    /\ results' = <<>>
    /\ pc' = "fallback"
    /\ UNCHANGED <<args, exc, chunks, gst, cmdtext, ngroup, nindiv, queries, prevChunks,
                   kvars, ivars, xvars>>

\* futures = {workspace: executor.submit(azcli, ...) for workspace in workspaces}
ApiSubmit ==
    /\ InApi /\ pc = "submit"
    /\ futures' = [i \in DOMAIN workspaces |-> Future(<<workspaces[i]>>)]
    /\ nxt' = 1
    /\ results' = <<>>
    /\ pc' = "fallback"
    /\ UNCHANGED <<args, exc, chunks, gst, cmdtext, ngroup, nindiv, queries, prevChunks,
                   kvars, ivars, xvars>>

\* the bug of a pool without a limit
ApiStartUnbounded ==
    /\ InApi /\ pc = "fallback"
    /\ \E i \in DOMAIN futures :
         /\ futures[i].st = "queued"
         /\ \A j \in 1..(i - 1) : futures[j].st # "queued"
         /\ futures' = [futures EXCEPT ![i].st = "running"]
    /\ nindiv' = nindiv + 1
    /\ UNCHANGED <<args, pc, exc, chunks, gst, cmdtext, nxt, results, ngroup, queries,
                   prevChunks, kvars, ivars, xvars>>

\* one of the max_workers workers takes the oldest queued call
ApiStart ==
    /\ InApi /\ pc = "fallback"
    /\ Cardinality({j \in DOMAIN futures : futures[j].st = "running"}) < max_workers
    /\ \E i \in DOMAIN futures :
         /\ futures[i].st = "queued"
         /\ \A j \in 1..(i - 1) : futures[j].st # "queued"
         /\ futures' = [futures EXCEPT ![i].st = "running"]
    /\ nindiv' = nindiv + 1
    /\ UNCHANGED <<args, pc, exc, chunks, gst, cmdtext, nxt, results, ngroup, queries,
                   prevChunks, kvars, ivars, xvars>>

\* an individual azcli call returns or raises
ApiFinish ==
    /\ InApi /\ pc = "fallback"
    /\ \E i \in DOMAIN futures, o \in {"ok", "timeout", "fatal"} :
         /\ futures[i].st = "running"
         /\ AllSchedules \/ (PoolFull /\ i = nxt /\ (o = "ok" \/ i = 1))
         /\ futures' = [futures EXCEPT ![i].st = o]
    /\ UNCHANGED <<args, pc, exc, chunks, gst, cmdtext, nxt, results, ngroup, nindiv,
                   queries, prevChunks, kvars, ivars, xvars>>

\* the bug of a failed call discarding the rows gathered so far
ApiCollectDrop ==
    /\ InApi /\ pc = "fallback"
    /\ IF nxt > Len(futures)
       THEN /\ pc' = "done"
            /\ UNCHANGED <<nxt, results>>
       ELSE /\ Finished(futures[nxt])
            /\ LET workspace == futures[nxt].target[1]
                   result == DataOf(workspace)
               IN  results' = IF futures[nxt].st = "ok"
                              THEN results \o [k \in DOMAIN result |->
                                                  Tag(result[k], workspace)]
                              ELSE <<>>
            /\ nxt' = nxt + 1
            /\ pc' = pc
    /\ UNCHANGED <<args, exc, chunks, gst, cmdtext, futures, ngroup, nindiv, queries,
                   prevChunks, kvars, ivars, xvars>>

\* for workspace, future in futures.items(): result = future.result(), [] if
\* it raised; every item is stamped; results += result
ApiCollect ==
    /\ InApi /\ pc = "fallback"
    /\ IF nxt > Len(futures)
       THEN /\ pc' = "done"
            /\ UNCHANGED <<nxt, results>>
       ELSE /\ Finished(futures[nxt])
            /\ LET workspace == futures[nxt].target[1]
                   result == IF futures[nxt].st = "ok" THEN DataOf(workspace) ELSE <<>>
               IN  results' = results \o [k \in DOMAIN result |-> Tag(result[k], workspace)]
            /\ nxt' = nxt + 1
            /\ pc' = pc
    /\ UNCHANGED <<args, exc, chunks, gst, cmdtext, futures, ngroup, nindiv, queries,
                   prevChunks, kvars, ivars, xvars>>

ApiQueries == {<<"S">>, <<"kql://">>}

InitApi ==
    /\ op = "api"
    /\ workspaces \in WsInputs
    /\ query \in ApiQueries
    /\ timespan = "P7D"
    /\ group_queries \in BOOLEAN /\ dry_run \in BOOLEAN
    /\ gst = "none" /\ cmdtext = <<>>
    /\ rowSeed \in 0..MaxRows
    /\ tenantMode \in TenantModes
    /\ pc = "start" /\ exc = "none"
    /\ chunks = <<>> /\ futures = <<>> /\ nxt = 1 /\ results = <<>>
    /\ ngroup = 0 /\ nindiv = 0
    /\ queries = 1 /\ prevChunks = <<>>
    /\ KqlIdle
    /\ IngestIdle
    /\ ExtraIdle

\* --------------------------------------------------------- api.py kql2df
Whitespace == {" ", "\n", "\t"}

\* s.split(c)[0]: the text before the first c, all of s if there is none
FirstPart(s, c) ==
    LET at == {i \in DOMAIN s : s[i] = c}
    IN  IF at = {} THEN s
        ELSE SubSeq(s, 1, (CHOOSE i \in at : \A j \in at : i <= j) - 1)

RECURSIVE lstrip(_)
lstrip(s) == IF s # <<>> /\ Head(s) \in Whitespace THEN lstrip(Tail(s)) ELSE s

RECURSIVE rstrip(_)
rstrip(s) ==
    IF s # <<>> /\ s[Len(s)] \in Whitespace THEN rstrip(SubSeq(s, 1, Len(s) - 1)) ELSE s

strip(s) == rstrip(lstrip(s))

\* the bug of taking the whole first line
TableOfLine(kql) == strip(FirstPart(kql, "\n"))

\* table = kql.split("\n")[0].split(" ")[0].strip()
TableOf(kql) == strip(FirstPart(FirstPart(kql, "\n"), " "))

\* pandas.json_normalize(data, max_level=1) on one row: a nested field becomes
\* one column per inner field, named outer.inner
NormalizeRow(row) ==
    LET flat == DOMAIN row \ {"Owner"}
        inner == IF "Owner" \in DOMAIN row THEN {"Owner.email"} ELSE {}
    IN  [c \in flat \cup inner |-> IF c \in flat THEN row[c] ELSE row.Owner.email]

json_normalize(data) == [kind |-> "table", rows |-> [i \in DOMAIN data |-> NormalizeRow(data[i])]]

\* pandas.DataFrame.from_records([{f"{table}": f"No Data in timespan {timespan}"}])
Placeholder(table, span) ==
    [kind |-> "placeholder", rows |-> <<[col |-> table, val |-> <<"No Data in timespan", span>>]>>]

\* the bug of retrying after any exception
IsException(e) == e # "none"

\* except ReadTimeout as exc:
IsReadTimeout(e) == e = "ReadTimeout"

\* if attempt < max_attempts:
CanRetry(a) == a < max_attempts

\* table = ...; try: data = analytics_query(workspaces=workspaces, query=kql, timespan=timespan)
KqlTry ==
    /\ op = "kql2df" /\ kpc = "enter"
    /\ kpc' = "wait"
    /\ nattempts' = nattempts + 1
    /\ pc' = "start" /\ exc' = "none"
    /\ gst' = "none" /\ cmdtext' = <<>> /\ futures' = <<>> /\ nxt' = 1 /\ results' = <<>>
    /\ UNCHANGED <<args, chunks, ngroup, nindiv, queries, prevChunks, attempt, naps, kdata,
                   kcause, ivars, xvars>>

\* assert data and len(data) > 0; data = pandas.json_normalize(data, max_level=1);
\* except Exception: the placeholder
KqlReturn ==
    /\ op = "kql2df" /\ kpc = "wait" /\ pc = "done"
    /\ \E o \in {"ok", "fatal"} :
         /\ kcause' = IF results = <<>> THEN "empty" ELSE IF o = "ok" THEN "rows" ELSE "convert"
         /\ kdata' = IF results # <<>> /\ o = "ok"
                     THEN json_normalize(results)
                     ELSE Placeholder(TableOf(query), timespan)
    /\ kpc' = "done"
    /\ pc' = "idle"
    /\ UNCHANGED <<args, exc, chunks, gst, cmdtext, futures, nxt, results, ngroup, nindiv,
                   queries, prevChunks, attempt, nattempts, naps, ivars, xvars>>

\* the bug of a backoff that grows by one second
KqlExceptFlat ==
    /\ op = "kql2df" /\ kpc = "wait" /\ pc = "raised"
    /\ IF IsReadTimeout(exc)
       THEN IF CanRetry(attempt)
            THEN /\ naps' = Append(naps, 1 + attempt)
                 /\ attempt' = attempt + 1
                 /\ kpc' = "enter"
                 /\ UNCHANGED <<kdata, kcause>>
            ELSE /\ kpc' = "raised"
                 /\ kcause' = "timeout"
                 /\ UNCHANGED <<naps, attempt, kdata>>
       ELSE /\ kdata' = Placeholder(TableOf(query), timespan)
            /\ kcause' = "error"
            /\ kpc' = "done"
            /\ UNCHANGED <<naps, attempt>>
    /\ pc' = "idle"
    /\ UNCHANGED <<args, exc, chunks, gst, cmdtext, futures, nxt, results, ngroup, nindiv,
                   queries, prevChunks, nattempts, ivars, xvars>>

\* except ReadTimeout: sleep and recurse while attempt < max_attempts, else
\* raise; except Exception: the placeholder
KqlExcept ==
    /\ op = "kql2df" /\ kpc = "wait" /\ pc = "raised"
    /\ IF IsReadTimeout(exc)
       THEN IF CanRetry(attempt)
            THEN /\ naps' = Append(naps, 1 + attempt * 2)
                 /\ attempt' = attempt + 1
                 /\ kpc' = "enter"
                 /\ UNCHANGED <<kdata, kcause>>
            ELSE /\ kpc' = "raised"
                 /\ kcause' = "timeout"
                 /\ UNCHANGED <<naps, attempt, kdata>>
       ELSE /\ kdata' = Placeholder(TableOf(query), timespan)
            /\ kcause' = "error"
            /\ kpc' = "done"
            /\ UNCHANGED <<naps, attempt>>
    /\ pc' = "idle"
    /\ UNCHANGED <<args, exc, chunks, gst, cmdtext, futures, nxt, results, ngroup, nindiv,
                   queries, prevChunks, nattempts, ivars, xvars>>

KqlWsInputs == {Desc(n) : n \in 0..MaxKqlWs}

InitKql ==
    /\ op = "kql2df"
    /\ workspaces \in KqlWsInputs
    /\ query \in KqlTexts(MaxKqlLen)
    /\ timespan \in {"P7D", "P1D"}
    /\ group_queries = TRUE /\ dry_run = FALSE
    /\ gst = "none" /\ cmdtext = <<>>
    /\ rowSeed \in 0..MaxRows
    /\ tenantMode = "absent"
    /\ pc = "idle" /\ exc = "none"
    /\ chunks = <<>> /\ futures = <<>> /\ nxt = 1 /\ results = <<>>
    /\ ngroup = 0 /\ nindiv = 0
    /\ queries = 1 /\ prevChunks = <<>>
    /\ kpc = "enter" /\ attempt = 0 /\ nattempts = 0 /\ naps = <<>> /\ kdata = <<>>
    /\ kcause = "none"
    /\ IngestIdle
    /\ ExtraIdle

\* ------------------------------------------- api.py ingest_datalake_hot
\* every order of a duplicate-free list
Orders(l) == {p \in [DOMAIN l -> Range(l)] : Range(p) = Range(l)}

\* the bug of drawing every position independently (with replacement)
resample(l) == [DOMAIN l -> Range(l)]

\* random.shuffle(ingest_queries): the orders it can leave the list in. Every
\* order of a list of at most MaxPermJobs queries; of a longer one the list as
\* it was, reversed, and rotated by one.
shuffle(l) ==
    IF Len(l) <= MaxPermJobs THEN Orders(l)
    ELSE {l, [i \in DOMAIN l |-> l[Len(l) + 1 - i]], [i \in DOMAIN l |-> l[(i % Len(l)) + 1]]}

\* For a list of at most MaxPermJobs queries every interleaving and every
\* combination of outcomes is explored. For a longer list the queries finish
\* in the order they started, and at most the last one fails.
AllIngestSchedules == Len(ingest_queries) <= MaxPermJobs

\* How adx_query ends for each of n ingest queries.
AdxOutcomes(n) ==
    IF n <= MaxPermJobs THEN [1..n -> {"ok", "fatal"}]
    ELSE {[q \in 1..n |-> "ok"], [q \in 1..n |-> IF q = n THEN "fatal" ELSE "ok"]}

\* The result table adx_query returns for query q: one or two rows of
\* (query text, row number, count).
adx_query(q) == [k \in 1..(1 + (q % 2)) |-> <<q, k, q + k>>]

\* dataframe_from_result_table: the rows as records under the column names
dataframe_from_result_table(t) ==
    [i \in DOMAIN t |-> [query |-> t[i][1], k |-> t[i][2], Count |-> t[i][3]]]

RECURSIVE SumCol(_, _)
\* the sum of column c, row after row
SumCol(rows, c) == IF rows = <<>> THEN 0 ELSE Head(rows)[c] + SumCol(Tail(rows), c)

\* the bug of reporting the last row for the sum
last_numeric(rows) == [k |-> rows[Len(rows)].k, Count |-> rows[Len(rows)].Count]

\* df.sum(numeric_only=True): the text column is left out
sum_numeric(rows) == [k |-> SumCol(rows, "k"), Count |-> SumCol(rows, "Count")]

IngestFuture(q) == [query |-> q, st |-> "queued", runs |-> 0]

\* the bug of putting a failed query back on the queue
Requeue(f, o) == [f EXCEPT !.st = IF o = "fatal" THEN "queued" ELSE o]

\* the worker stores the result or the exception of adx_query in the future
SetResult(f, o) == [f EXCEPT !.st = o]

\* the bug of reading a future without waiting for it
NoWait(f) == TRUE

\* future.exception() returns once the future is done
Done(f) == f.st \in {"ok", "fatal"}

\* ingest_tables, ingest_queries (get_dx_kql, workspace_details), shuffle
IngLoad ==
    /\ ipc = "start"
    /\ \E o \in {"ok", "fatal"} :
         IF o = "ok"
         THEN /\ ingest_queries' \in shuffle(ingest_queries)
              /\ ipc' = "submit"
              /\ iexc' = iexc
         ELSE /\ ipc' = "raised"
              /\ iexc' = "loader"
              /\ UNCHANGED ingest_queries
    /\ UNCHANGED <<adx, ingest_futures, scan, running, inxt, ingest_results, errors, df,
                   qvars, kvars, xvars>>

\* for query in ingest_queries: futures.append((query, executor.submit(adx_query, query)))
IngSubmit ==
    /\ ipc = "submit"
    /\ IF Len(ingest_futures) < Len(ingest_queries)
       THEN /\ ingest_futures' =
                   Append(ingest_futures, IngestFuture(ingest_queries[Len(ingest_futures) + 1]))
            /\ UNCHANGED <<ipc, scan, running>>
       ELSE /\ ipc' = "poll"
            /\ scan' = 1 /\ running' = 0
            /\ UNCHANGED ingest_futures
    /\ UNCHANGED <<iexc, ingest_queries, adx, inxt, ingest_results, errors, df, qvars, kvars, xvars>>

\* the bug of a pool that starts every submitted job at once
IngStartUnbounded ==
    /\ ipc \in {"submit", "poll", "collect"}
    /\ \E i \in DOMAIN ingest_futures :
         /\ ingest_futures[i].st = "queued"
         /\ \A j \in 1..(i - 1) : ingest_futures[j].st # "queued"
         /\ ingest_futures' =
                [ingest_futures EXCEPT ![i].st = "running", ![i].runs = @ + 1]
    /\ UNCHANGED <<ipc, iexc, ingest_queries, adx, scan, running, inxt, ingest_results,
                   errors, df, qvars, kvars, xvars>>

\* the bug of a pool that starts no further job once a job has failed
IngStartUnlessFailed ==
    /\ ipc \in {"submit", "poll", "collect"}
    /\ Cardinality({j \in DOMAIN ingest_futures : ingest_futures[j].st = "running"})
           < ingest_workers
    /\ \A j \in DOMAIN ingest_futures : ingest_futures[j].st # "fatal"
    /\ \E i \in DOMAIN ingest_futures :
         /\ ingest_futures[i].st = "queued"
         /\ \A j \in 1..(i - 1) : ingest_futures[j].st # "queued"
         /\ ingest_futures' =
                [ingest_futures EXCEPT ![i].st = "running", ![i].runs = @ + 1]
    /\ UNCHANGED <<ipc, iexc, ingest_queries, adx, scan, running, inxt, ingest_results,
                   errors, df, qvars, kvars, xvars>>

\* one of the ingest_workers workers takes the oldest queued future
IngStart ==
    /\ ipc \in {"submit", "poll", "collect"}
    /\ Cardinality({j \in DOMAIN ingest_futures : ingest_futures[j].st = "running"})
           < ingest_workers
    /\ \E i \in DOMAIN ingest_futures :
         /\ ingest_futures[i].st = "queued"
         /\ \A j \in 1..(i - 1) : ingest_futures[j].st # "queued"
         /\ ingest_futures' =
                [ingest_futures EXCEPT ![i].st = "running", ![i].runs = @ + 1]
    /\ UNCHANGED <<ipc, iexc, ingest_queries, adx, scan, running, inxt, ingest_results,
                   errors, df, qvars, kvars, xvars>>

\* adx_query returns or raises in a worker
IngFinish ==
    /\ ipc \in {"submit", "poll", "collect"}
    /\ \E i \in DOMAIN ingest_futures :
         /\ ingest_futures[i].st = "running"
         /\ AllIngestSchedules \/ \A j \in 1..(i - 1) : ingest_futures[j].st # "running"
         /\ ingest_futures' =
                [ingest_futures EXCEPT
                    ![i] = SetResult(ingest_futures[i], adx[ingest_futures[i].query])]
    /\ UNCHANGED <<ipc, iexc, ingest_queries, adx, scan, running, inxt, ingest_results,
                   errors, df, qvars, kvars, xvars>>

\* running = [f.running() for q, f in futures].count(True), one future at a time
IngPollRead ==
    /\ ipc = "poll" /\ scan <= Len(ingest_futures)
    /\ running' = running + (IF ingest_futures[scan].st = "running" THEN 1 ELSE 0)
    /\ scan' = scan + 1
    /\ UNCHANGED <<ipc, iexc, ingest_queries, adx, ingest_futures, inxt, ingest_results,
                   errors, df, qvars, kvars, xvars>>

\* if running == 0: break; else time.sleep(1) and poll again
IngPollTest ==
    /\ ipc = "poll" /\ scan > Len(ingest_futures)
    /\ IF running = 0
       THEN /\ ipc' = "collect"
            /\ inxt' = 1
            /\ UNCHANGED <<scan, running>>
       ELSE /\ scan' = 1 /\ running' = 0
            /\ UNCHANGED <<ipc, inxt>>
    /\ UNCHANGED <<iexc, ingest_queries, adx, ingest_futures, ingest_results, errors, df,
                   qvars, kvars, xvars>>

\* for query, future in futures: if future.exception(): log the error;
\* else results.append(dataframe_from_result_table(future.result()))
IngCollect ==
    /\ ipc = "collect"
    /\ IF inxt > Len(ingest_futures)
       THEN /\ ipc' = "concat"
            /\ UNCHANGED <<inxt, ingest_results, errors>>
       ELSE /\ Done(ingest_futures[inxt])
            /\ IF ingest_futures[inxt].st = "fatal"
               THEN /\ errors' = Append(errors, ingest_futures[inxt].query)
                    /\ UNCHANGED ingest_results
               ELSE /\ ingest_results' =
                           Append(ingest_results,
                                  dataframe_from_result_table(
                                      adx_query(ingest_futures[inxt].query)))
                    /\ UNCHANGED errors
            /\ inxt' = inxt + 1
            /\ ipc' = ipc
    /\ UNCHANGED <<iexc, ingest_queries, adx, ingest_futures, scan, running, df, qvars,
                   kvars, xvars>>

\* df = pandas.concat(results), which raises ValueError when results is empty;
\* df.sum(numeric_only=True)
IngConcat ==
    /\ ipc = "concat"
    /\ IF ingest_results = <<>>
       THEN /\ ipc' = "raised"
            /\ iexc' = "ValueError"
            /\ UNCHANGED df
       ELSE /\ df' = [table |-> Concat(ingest_results),
                      sum |-> sum_numeric(Concat(ingest_results))]
            /\ ipc' = "stats"
            /\ UNCHANGED iexc
    /\ UNCHANGED <<ingest_queries, adx, ingest_futures, scan, running, inxt, ingest_results,
                   errors, qvars, kvars, xvars>>

\* the hot cache count and the ingest_stats query: adx_query returns or raises
IngStats ==
    /\ ipc = "stats"
    /\ \E o \in {"ok", "fatal"} :
         /\ ipc' = IF o = "ok" THEN "done" ELSE "raised"
         /\ iexc' = IF o = "ok" THEN iexc ELSE "adx_query"
    /\ UNCHANGED <<ingest_queries, adx, ingest_futures, scan, running, inxt, ingest_results,
                   errors, df, qvars, kvars, xvars>>

\* the lengths of the ingest query lists
JobCounts == (1..MaxPermJobs) \cup ((ingest_workers + 1)..MaxJobs)

InitIngest ==
    /\ op = "ingest"
    /\ workspaces = <<>> /\ query = <<>> /\ timespan = "P7D"
    /\ group_queries = TRUE /\ dry_run = FALSE
    /\ rowSeed = 0 /\ tenantMode = "absent"
    /\ pc = "idle" /\ exc = "none"
    /\ chunks = <<>> /\ gst = "none" /\ cmdtext = <<>> /\ futures = <<>> /\ nxt = 1
    /\ results = <<>> /\ ngroup = 0 /\ nindiv = 0 /\ queries = 1 /\ prevChunks = <<>>
    /\ KqlIdle
    /\ ipc = "start" /\ iexc = "none"
    /\ \E n \in JobCounts :
         /\ ingest_queries = Asc(n)
         /\ adx \in AdxOutcomes(n)
    /\ ingest_futures = <<>> /\ scan = 1 /\ running = 0 /\ inxt = 1
    /\ ingest_results = <<>> /\ errors = <<>> /\ df = <<>>
    /\ ExtraIdle

NextIngest ==
    \/ IngLoad \/ IngSubmit \/ IngStart \/ IngFinish \/ IngPollRead \/ IngPollTest
    \/ IngCollect \/ IngConcat \/ IngStats

SpecIngest == InitIngest /\ [][NextIngest]_vars

\* ingest_datalake_hot when every thread keeps being scheduled: the calling
\* thread takes its next step, an idle worker takes a queued job, and an
\* adx_query call in progress returns or raises
SpecIngestFair ==
    /\ InitIngest /\ [][NextIngest]_vars
    /\ WF_vars(IngLoad) /\ WF_vars(IngSubmit)
    /\ WF_vars(IngStart) /\ WF_vars(IngFinish)
    /\ WF_vars(IngPollRead) /\ WF_vars(IngPollTest)
    /\ WF_vars(IngCollect) /\ WF_vars(IngConcat) /\ WF_vars(IngStats)

\* ------------------------------------------------- api.py upload_results
\* the dates and the filenamekeys values of the results
UploadDays == {"2023-01-01", "2023-01-02"}

UploadIds == {"t1_7", "t1_8"}

\* a result: TimeGenerated is a date and a time of day
UploadResults == [TimeGenerated : UploadDays \X (1..MaxTick), Id : UploadIds]

\* dirname = result['TimeGenerated'].split('T')[0]
dirname(result) == result.TimeGenerated[1]

\* filename = "_".join([result[key] for key in filenamekeys.split(",")]) + ".json"
filename(result) == result.Id

\* path=f"{blobdest}/{dirname}/{filename}"
PathOf(result) == <<dirname(result), filename(result)>>

Paths == UploadDays \X UploadIds

\* path.exists() is False
Absent == -1

\* the file is open for writing: truncated, the text not yet flushed
Torn == 0

\* isoparse(content[modified_key]) of a result stored under its own date: the
\* date is the directory, so two contents of one path compare by time of day
mtime(result) == result.TimeGenerated[2]

\* if source_mtime <= dest_mtime: return existing_content
NotNewer(source_mtime, dest_mtime) == source_mtime <= dest_mtime

\* if not results: return; else every result is submitted to the executor
UpSubmit ==
    /\ upc = "start"
    /\ IF upresults = <<>>
       THEN upc' = "done" /\ UNCHANGED upfutures
       ELSE /\ upc' = "join"
            /\ upfutures' = [i \in DOMAIN upresults |->
                                 [content |-> upresults[i], st |-> "queued"]]
    /\ UNCHANGED <<upresults, blob, blob0, svars, jvars, avars, qvars, kvars, ivars>>

\* a worker runs datalake_json up to its decision: the path does not exist,
\* or json.loads(path.read_text()) raises on a truncated file, or the source
\* is not newer than the existing content, or it is
UpRead ==
    /\ upc = "join"
    /\ Cardinality({j \in DOMAIN upfutures :
                       upfutures[j].st \in {"decided", "writing"}}) < upload_workers
    /\ \E i \in DOMAIN upfutures :
         /\ upfutures[i].st = "queued"
         /\ \A j \in 1..(i - 1) : upfutures[j].st # "queued"
         /\ LET existing == blob[PathOf(upfutures[i].content)]
                next == IF existing = Absent THEN "decided"
                        ELSE IF existing = Torn THEN "raised"
                        ELSE IF NotNewer(mtime(upfutures[i].content), existing)
                             THEN "done"
                             ELSE "decided"
            IN  upfutures' = [upfutures EXCEPT ![i].st = next]
    /\ UNCHANGED <<upc, upresults, blob, blob0, svars, jvars, avars, qvars, kvars, ivars>>

\* path.write_text(...) opens the file, which truncates it
UpOpen ==
    /\ upc = "join"
    /\ \E i \in DOMAIN upfutures :
         /\ upfutures[i].st = "decided"
         /\ blob' = [blob EXCEPT ![PathOf(upfutures[i].content)] = Torn]
         /\ upfutures' = [upfutures EXCEPT ![i].st = "writing"]
    /\ UNCHANGED <<upc, upresults, blob0, svars, jvars, avars, qvars, kvars, ivars>>

\* path.write_text(...) writes the text and closes the file
UpWrite ==
    /\ upc = "join"
    /\ \E i \in DOMAIN upfutures :
         /\ upfutures[i].st = "writing"
         /\ blob' = [blob EXCEPT ![PathOf(upfutures[i].content)] =
                                     mtime(upfutures[i].content)]
         /\ upfutures' = [upfutures EXCEPT ![i].st = "done"]
    /\ UNCHANGED <<upc, upresults, blob0, svars, jvars, avars, qvars, kvars, ivars>>

\* the with block ends when every datalake_json call has returned or raised
UpJoin ==
    /\ upc = "join"
    /\ \A i \in DOMAIN upfutures : upfutures[i].st \in {"done", "raised"}
    /\ upc' = "done"
    /\ UNCHANGED <<upresults, blob, blob0, upfutures, svars, jvars, avars, qvars, kvars,
                   ivars>>

\* the datalake before the call: empty, or holding under every path a content
\* of one earlier time of day
InitUpload ==
    /\ op = "upload_results"
    /\ workspaces = <<>> /\ query = <<>> /\ timespan = "P7D"
    /\ group_queries = TRUE /\ dry_run = FALSE
    /\ rowSeed = 0 /\ tenantMode = "absent"
    /\ pc = "idle" /\ exc = "none"
    /\ chunks = <<>> /\ gst = "none" /\ cmdtext = <<>> /\ futures = <<>> /\ nxt = 1
    /\ results = <<>> /\ ngroup = 0 /\ nindiv = 0 /\ queries = 1 /\ prevChunks = <<>>
    /\ KqlIdle /\ IngestIdle
    /\ SimpleIdle /\ JiraIdle /\ AuthIdle
    /\ upc = "start"
    /\ upresults \in UNION {[1..n -> UploadResults] : n \in 0..MaxUploads}
    /\ \E t \in {Absent} \cup (1..MaxTick) : blob = [p \in Paths |-> t]
    /\ blob0 = blob
    /\ upfutures = <<>>

NextUpload == UpSubmit \/ UpRead \/ UpOpen \/ UpWrite \/ UpJoin

SpecUpload == InitUpload /\ [][NextUpload]_vars

\* --------------------------------------------------- main.py simple_query
\* the characters of a customerId
IdDigits == <<"1", "2", "3", "4", "5", "6", "7", "8", "9">>

\* the names the workspaces can have
WsNames == {<<"a">>, <<"b">>, <<"a", "b">>}

\* the characters of the name argument
NameChars == {"W", "1", "a", "b"}

\* sorted(list(sentinelworkspaces)): Workspace tuples without duplicates, in
\* ascending order of customerId
ListedInputs ==
    UNION {[1..n -> WsNames] : n \in 0..MaxListed}

Workspace(customerId, wsname) == [customerId |-> customerId, name |-> wsname]

\* str(workspace): the type name, then the fields
str(workspace) == <<"W", IdDigits[workspace.customerId]>> \o workspace.name

\* s.find(sub): the lowest index, counted from 0, where sub occurs in s; -1
\* when it does not occur
find(s, sub) ==
    LET at == {i \in 0..(Len(s) - Len(sub)) : SubSeq(s, i + 1, i + Len(sub)) = sub}
    IN  IF at = {} THEN -1 ELSE CHOOSE i \in at : \A j \in at : i <= j

\* `if n:` for an int n
truth(n) == n # 0

\* for workspace in list_workspaces():
SqList ==
    /\ spc = "start"
    /\ spc' = "loop" /\ sidx' = 1
    /\ UNCHANGED <<listed, name, scalls, uvars, jvars, avars, qvars, kvars, ivars>>

\* if str(workspace).find(name): return analytics_query([workspace.customerId],
\* query, timespan); the function returns None when the loop ends
SqLoop ==
    /\ spc = "loop"
    /\ IF sidx > Len(listed)
       THEN spc' = "done" /\ UNCHANGED <<sidx, scalls>>
       ELSE IF truth(find(str(listed[sidx]), name))
       THEN /\ scalls' = Append(scalls, <<listed[sidx].customerId>>)
            /\ spc' = "done"
            /\ UNCHANGED sidx
       ELSE /\ sidx' = sidx + 1
            /\ UNCHANGED <<spc, scalls>>
    /\ UNCHANGED <<listed, name, uvars, jvars, avars, qvars, kvars, ivars>>

InitSimple ==
    /\ op = "simple_query"
    /\ workspaces = <<>> /\ query = <<>> /\ timespan = "P7D"
    /\ group_queries = TRUE /\ dry_run = FALSE
    /\ rowSeed = 0 /\ tenantMode = "absent"
    /\ pc = "idle" /\ exc = "none"
    /\ chunks = <<>> /\ gst = "none" /\ cmdtext = <<>> /\ futures = <<>> /\ nxt = 1
    /\ results = <<>> /\ ngroup = 0 /\ nindiv = 0 /\ queries = 1 /\ prevChunks = <<>>
    /\ KqlIdle /\ IngestIdle
    /\ UploadIdle /\ JiraIdle /\ AuthIdle
    /\ spc = "start"
    /\ \E l \in ListedInputs : listed = [i \in DOMAIN l |-> Workspace(i, l[i])]
    /\ name \in UNION {[1..n -> NameChars] : n \in 0..MaxNameLen}
    /\ sidx = 1 /\ scalls = <<>>

NextSimple == SqList \/ SqLoop

SpecSimple == InitSimple /\ [][NextSimple]_vars

\* --------------------------------------------- api.py update_jira_issues
RECURSIVE OrderByTimeGenerated(_)
\* order by TimeGenerated asc: the incidents of S, earliest first (incidents
\* of one TimeGenerated by number)
OrderByTimeGenerated(S) ==
    IF S = {} THEN <<>>
    ELSE LET m == CHOOSE i \in S :
                      \A j \in S :
                          \/ SecurityIncident[i] < SecurityIncident[j]
                          \/ SecurityIncident[i] = SecurityIncident[j] /\ i <= j
         IN  <<m>> \o OrderByTimeGenerated(S \ {m})

\* take n
take(s, n) == SubSeq(s, 1, Min(n, Len(s)))

\* where TimeGenerated >= after
NotBefore(t, a) == t >= a

\* incidents(after): SecurityIncident | summarize arg_max(TimeGenerated, *) by
\* IncidentNumber, TenantId | where TimeGenerated >= after | order by
\* TimeGenerated asc | take rows
incidents(a) ==
    take(OrderByTimeGenerated({i \in DOMAIN SecurityIncident :
                                   NotBefore(SecurityIncident[i], a)}), incident_rows)

\* df.TimeGenerated.max() of a non-empty df
TimeGenerated_max(d) ==
    CHOOSE t \in {SecurityIncident[d[i]] : i \in DOMAIN d} :
        \A i \in DOMAIN d : SecurityIncident[d[i]] <= t

\* df = incidents(after=after); adx_query returns or raises
JiraQuery ==
    /\ jpc = "query"
    /\ \E o \in {"ok", "fatal"} :
         IF o = "ok"
         THEN incidents_df' = incidents(after) /\ jpc' = "test"
         ELSE jpc' = "raised" /\ UNCHANGED incidents_df
    /\ UNCHANGED <<SecurityIncident, after, synced, uvars, svars, avars, qvars, kvars,
                   ivars>>

\* while not df.empty and df.shape[0] > 1:
JiraTest ==
    /\ jpc = "test"
    /\ jpc' = IF incidents_df # <<>> /\ Len(incidents_df) > 1 THEN "update" ELSE "done"
    /\ UNCHANGED <<SecurityIncident, after, incidents_df, synced, uvars, svars, avars,
                   qvars, kvars, ivars>>

\* update_jira(df), which returns or raises;
\* after = f"todatetime('{df.TimeGenerated.max()}')"
JiraUpdate ==
    /\ jpc = "update"
    /\ \E o \in {"ok", "fatal"} :
         IF o = "ok"
         THEN /\ synced' = synced \cup Range(incidents_df)
              /\ after' = TimeGenerated_max(incidents_df)
              /\ jpc' = "query"
         ELSE jpc' = "raised" /\ UNCHANGED <<synced, after>>
    /\ UNCHANGED <<SecurityIncident, incidents_df, uvars, svars, avars, qvars, kvars,
                   ivars>>

\* after = start_after
InitJira ==
    /\ op = "update_jira_issues"
    /\ workspaces = <<>> /\ query = <<>> /\ timespan = "P7D"
    /\ group_queries = TRUE /\ dry_run = FALSE
    /\ rowSeed = 0 /\ tenantMode = "absent"
    /\ pc = "idle" /\ exc = "none"
    /\ chunks = <<>> /\ gst = "none" /\ cmdtext = <<>> /\ futures = <<>> /\ nxt = 1
    /\ results = <<>> /\ ngroup = 0 /\ nindiv = 0 /\ queries = 1 /\ prevChunks = <<>>
    /\ KqlIdle /\ IngestIdle
    /\ UploadIdle /\ SimpleIdle /\ AuthIdle
    /\ jpc = "query"
    /\ SecurityIncident \in UNION {[1..n -> 1..MaxTime] : n \in 0..MaxIncidents}
    /\ after \in 0..MaxTime
    /\ incidents_df = <<>> /\ synced = {}

NextJira == JiraQuery \/ JiraTest \/ JiraUpdate

\* update_jira_issues when its thread keeps running: every statement reached
\* is executed
SpecJiraFair ==
    /\ InitJira /\ [][NextJira]_vars
    /\ WF_vars(JiraQuery) /\ WF_vars(JiraTest) /\ WF_vars(JiraUpdate)

\* --------------------------------------------- main.py authenticate_request
\* the values an auth_token or API_TOKEN can have
Tokens == {"DEBUG", "s3cr3t", "guess", ""}

\* d.get(key, default), v being what d holds under key (None: nothing)
get(v, default) == IF v = None THEN default ELSE v

\* the bug of letting every token pass when no API_TOKEN is configured
not_in_if_set(x, l) == \A i \in DOMAIN l : l[i] # None /\ l[i] # x

\* x not in l
not_in(x, l) == \A i \in DOMAIN l : l[i] # x

\* auth_token = request.query_params.get("auth_token",
\*                  request.cookies.get("auth_token", "DEBUG"))
auth_token == get(query_params, get(cookies, "DEBUG"))

\* if auth_token not in [secret_api_token]: response = Response(status_code=403)
\* else the request goes on to call_next
AuthCheck ==
    /\ apc = "request"
    /\ IF not_in(auth_token, <<secret_api_token>>)
       THEN /\ response' = [status_code |-> 403, set_cookie |-> None]
            /\ apc' = "responded"
       ELSE /\ apc' = "call_next"
            /\ UNCHANGED response
    /\ UNCHANGED <<secret_api_token, query_params, cookies, handled, nrequests, uvars,
                   svars, jvars, qvars, kvars, ivars>>

\* response = await call_next(request): the endpoint runs and answers
AuthCallNext ==
    /\ apc = "call_next"
    /\ handled' = TRUE
    /\ \E code \in {200, 500} : response' = [status_code |-> code, set_cookie |-> None]
    /\ apc' = "set_cookie"
    /\ UNCHANGED <<secret_api_token, query_params, cookies, nrequests, uvars, svars, jvars,
                   qvars, kvars, ivars>>

\* if request.cookies.get("auth_token") != auth_token:
\*     response.set_cookie("auth_token", auth_token); return response
AuthSetCookie ==
    /\ apc = "set_cookie"
    /\ response' = IF cookies # auth_token
                   THEN [response EXCEPT !.set_cookie = auth_token]
                   ELSE response
    /\ apc' = "responded"
    /\ UNCHANGED <<secret_api_token, query_params, cookies, handled, nrequests, uvars,
                   svars, jvars, qvars, kvars, ivars>>

\* the client's next request: it carries the cookie the response set, if any,
\* and any auth_token query parameter or none
AuthNextRequest ==
    /\ apc = "responded" /\ nrequests < MaxRequests
    /\ cookies' = get(response.set_cookie, cookies)
    /\ query_params' \in Tokens \cup {None}
    /\ response' = NoResponse
    /\ handled' = FALSE
    /\ nrequests' = nrequests + 1
    /\ apc' = "request"
    /\ UNCHANGED <<secret_api_token, uvars, svars, jvars, qvars, kvars, ivars>>

\* secret_api_token = os.environ.get("API_TOKEN"), and the first request
InitAuth ==
    /\ op = "authenticate_request"
    /\ workspaces = <<>> /\ query = <<>> /\ timespan = "P7D"
    /\ group_queries = TRUE /\ dry_run = FALSE
    /\ rowSeed = 0 /\ tenantMode = "absent"
    /\ pc = "idle" /\ exc = "none"
    /\ chunks = <<>> /\ gst = "none" /\ cmdtext = <<>> /\ futures = <<>> /\ nxt = 1
    /\ results = <<>> /\ ngroup = 0 /\ nindiv = 0 /\ queries = 1 /\ prevChunks = <<>>
    /\ KqlIdle /\ IngestIdle
    /\ UploadIdle /\ SimpleIdle /\ JiraIdle
    /\ apc = "request"
    /\ secret_api_token \in Tokens \cup {None}
    /\ query_params \in Tokens \cup {None}
    /\ cookies \in Tokens \cup {None}
    /\ response = NoResponse /\ handled = FALSE /\ nrequests = 1

NextAuth == AuthCheck \/ AuthCallNext \/ AuthSetCookie \/ AuthNextRequest

SpecAuth == InitAuth /\ [][NextAuth]_vars

\* ================================================================ claims
CeilDiv(a, b) == (a + b - 1) \div b

RECURSIVE AscOf(_)
\* the elements of a finite set of numbers in ascending order
AscOf(S) ==
    IF S = {} THEN <<>>
    ELSE LET m == CHOOSE x \in S : \A y \in S : x <= y IN <<m>> \o AscOf(S \ {m})

\* main.py has computed its chunks
Chunked == op = "main" /\ pc \in {"map", "done", "raised"} /\ exc # "loader"

\* C1: the batches main.py makes of a non-empty set of workspaces partition it
\* (together they hold every workspace, and none twice), none is larger than
\* the fan-out limit (chunkSize, the only limit the code has), and a second
\* call with the same set, listed in any order, makes the same batches.
C1_BatchesPartition ==
    (Chunked /\ workspaces # <<>>) =>
        /\ Range(Concat(chunks)) = Range(workspaces)
        /\ Len(Concat(chunks)) = Cardinality(Range(workspaces))
        /\ \A j \in DOMAIN chunks : Len(chunks[j]) <= chunkSize
        /\ queries > 1 => chunks = prevChunks

\* a second call, over more than chunkSize workspaces listed out of order
C1_Witness ==
    /\ op = "main" /\ pc = "done" /\ queries = 2
    /\ Len(chunks) = 2
    /\ workspaces # Concat(chunks)

\* the call is over, it was a real query of a non-empty list, it went the
\* grouped way and every grouped call succeeded
GroupedOnly ==
    /\ pc = "done" /\ workspaces # <<>> /\ ~dry_run
    /\ op = "main" => \A i \in DOMAIN futures : futures[i].st = "ok"
    /\ op # "main" => gst = "ok"

\* C2 as stated: with every grouped call succeeding, a query issues exactly
\* ceil(|W| / chunkSize) calls, none of them individual, and returns their rows
\* unmodified in batch order.
C2_Original ==
    GroupedOnly =>
        /\ ngroup = CeilDiv(Len(workspaces), chunkSize)
        /\ nindiv = 0
        /\ results = Backend(IF op = "main" THEN AscOf(Range(workspaces)) ELSE workspaces)

\* C2 amended: main.py issues ceil(|W| / chunkSize) calls and returns their
\* rows in ascending workspace order; api.py issues exactly one grouped call
\* naming the whole list, however long, and returns its rows unmodified.
C2_CallsAndRows ==
    GroupedOnly =>
        /\ nindiv = 0
        /\ op = "main" =>
             /\ ngroup = CeilDiv(Len(workspaces), chunkSize)
             /\ results = Backend(AscOf(Range(workspaces)))
        /\ op # "main" =>
             /\ ngroup = 1
             /\ results = Backend(workspaces)

\* api.py answered a list of more than chunkSize workspaces from one call
C2_Witness ==
    /\ op = "api" /\ GroupedOnly
    /\ Len(workspaces) > chunkSize
    /\ results # <<>>

\* a row in the form the backend returned it
Grouped(r) == r = BackendRow(r.ws, r.k)

\* the k-th row of workspace w, stamped with w
Stamped(w, k) == [ws |-> w, k |-> k, Owner |-> [email |-> w], TenantId |-> w]

\* api.py went to the individual queries (after a failed grouped call, or at once)
FellBack == InApi /\ pc \in {"fallback", "done"} /\ gst # "ok" /\ cmdtext = <<>>

\* api.py's grouped call failed, every individual call succeeded, the call is over
Degraded ==
    /\ InApi /\ pc = "done" /\ workspaces # <<>>
    /\ gst \in {"timeout", "fatal"}
    /\ \A i \in DOMAIN futures : futures[i].st = "ok"

\* the first batch of the workspaces: the chunkSize smallest identifiers
FirstBatch ==
    LET asc == AscOf(Range(workspaces)) IN Range(SubSeq(asc, 1, Min(chunkSize, Len(asc))))

\* C3 as stated: after a failed grouped call whose individual calls all succeed,
\* the rows of the degraded batch are stamped with their workspace and the rows
\* of every other batch are in grouped form, as the backend returned them.
C3_Original ==
    Degraded =>
        \A i \in DOMAIN results :
            IF results[i].ws \in FirstBatch
            THEN results[i] = Stamped(results[i].ws, results[i].k)
            ELSE Grouped(results[i])

\* C3 amended: api.py has one grouped call, over the whole list. When it fails
\* and every individual call succeeds, the result is, workspace by workspace in
\* list order, the rows of that workspace's individual call stamped with the
\* workspace; every workspace is queried individually, beyond chunkSize too,
\* and no row stays in grouped form.
C3_AllStamped ==
    Degraded =>
        /\ results = Concat([i \in DOMAIN workspaces |->
                               [k \in 1..NRows(workspaces[i]) |-> Stamped(workspaces[i], k)]])
        /\ ngroup = 1
        /\ nindiv = Len(workspaces)

\* a degraded query of more than chunkSize workspaces whose rows carry no
\* TenantId of their own, with a row of a workspace of the second batch
C3_Witness ==
    /\ Degraded /\ Len(workspaces) > chunkSize /\ tenantMode = "absent"
    /\ \E i \in DOMAIN results : results[i].ws \notin FirstBatch

\* C4 as stated: a query of a non-empty list never raises a failure of an
\* azcli call to its caller.
C4_Original == (workspaces # <<>> /\ pc = "raised") => exc # "azcli"

\* C5 as stated: on the fallback path a row that carries a TenantId keeps it,
\* and only a row without one gets the workspace written into TenantId.
C5_Original ==
    FellBack =>
        \A i \in DOMAIN results :
            LET b == BackendRow(results[i].ws, results[i].k)
            IN  results[i].TenantId = IF "TenantId" \in DOMAIN b THEN b.TenantId
                                      ELSE results[i].ws

\* C5 amended: on the fallback path every returned row has TenantId set to the
\* workspace of the call that fetched it, whether or not the row carried a
\* TenantId (a value it carried is overwritten); its other fields are as the
\* backend returned them.
C5_Overwritten ==
    FellBack =>
        \A i \in DOMAIN results :
            LET b == BackendRow(results[i].ws, results[i].k)
            IN  /\ DOMAIN results[i] = DOMAIN b \cup {"TenantId"}
                /\ results[i].TenantId = results[i].ws
                /\ \A f \in DOMAIN b \ {"TenantId"} : results[i][f] = b[f]

\* a finished fallback over two workspaces whose rows carried another TenantId
C5_Witness ==
    /\ FellBack /\ pc = "done" /\ tenantMode = "other"
    /\ \E i, j \in DOMAIN results : results[i].ws # results[j].ws

\* C6 as stated: a query of a non-empty list with group_queries=False returns
\* only rows whose TenantId names the workspace they were fetched from.
C6_Original ==
    (op = "api" /\ ~group_queries /\ ~dry_run /\ workspaces # <<>> /\ pc = "done") =>
        \A i \in DOMAIN results :
            /\ "TenantId" \in DOMAIN results[i]
            /\ results[i].TenantId = results[i].ws

\* azcli calls of the current analytics_query that timed out / failed otherwise
AzTimeouts ==
    (IF gst = "timeout" THEN 1 ELSE 0)
        + Cardinality({i \in DOMAIN futures : futures[i].st = "timeout"})

AzFatal ==
    (IF gst = "fatal" THEN 1 ELSE 0)
        + Cardinality({i \in DOMAIN futures : futures[i].st = "fatal"})

\* attempts of kql2df that ended in a ReadTimeout
TimedOutAttempts == Len(naps) + (IF kcause = "timeout" THEN 1 ELSE 0)

\* C7 as stated: when every attempt times out, kql2df makes exactly
\* max_attempts (5) attempts and then raises.
C7_Original ==
    (op = "kql2df" /\ kpc \in {"done", "raised"} /\ TimedOutAttempts = nattempts) =>
        (kpc = "raised" /\ nattempts = max_attempts)

\* C8 as stated: after k < 5 timeouts (of the loader or of azcli calls) and
\* then a success with rows, kql2df returns the table of those rows and has
\* made exactly k + 1 attempts.
C8_Original ==
    (/\ op = "kql2df" /\ kpc = "done" /\ kcause = "rows"
     /\ AzFatal = 0 /\ Len(naps) + AzTimeouts < max_attempts) =>
        (kdata.kind = "table" /\ nattempts = Len(naps) + AzTimeouts + 1)

\* the text of q before its first space or newline, without the tabs around it
LeadingToken(q) ==
    LET stops == {i \in DOMAIN q : q[i] \in {" ", "\n"}}
        e == IF stops = {} THEN Len(q) ELSE (CHOOSE i \in stops : \A j \in stops : i <= j) - 1
        solid == {i \in 1..e : q[i] # "\t"}
    IN  IF solid = {} THEN <<>>
        ELSE SubSeq(q, CHOOSE i \in solid : \A j \in solid : i <= j,
                       CHOOSE i \in solid : \A j \in solid : i >= j)

\* the table is the one-row placeholder for this query and timespan
IsPlaceholder ==
    /\ kdata.kind = "placeholder"
    /\ Len(kdata.rows) = 1
    /\ kdata.rows[1].col = LeadingToken(query)
    /\ kdata.rows[1].val = <<"No Data in timespan", timespan>>

\* C9: when the grouped call succeeds with zero rows, kql2df returns (it does
\* not raise, and the attempt is its last) the one-row table whose column is
\* the leading token of the query's first line and whose value says there is
\* no data in the timespan.
C9_PlaceholderOnEmpty ==
    (op = "kql2df" /\ gst = "ok" /\ results = <<>> /\ kpc # "wait") =>
        /\ kpc = "done"
        /\ IsPlaceholder
        /\ nattempts = attempt + 1

\* an empty answer to a query whose leading token is followed by more text
C9_Witness ==
    /\ op = "kql2df" /\ kpc = "done" /\ gst = "ok" /\ results = <<>>
    /\ LeadingToken(query) # <<>>
    /\ Len(query) > Len(LeadingToken(query))

\* C10: a failure inside kql2df that is not a ReadTimeout (the loader failing
\* otherwise, the workspace list being empty, the row conversion failing) ends
\* the call with the placeholder: the failing attempt is the last, nothing is
\* raised, and without an earlier timeout it is the only attempt.
C10_NonTimeoutFailure ==
    (/\ op = "kql2df" /\ kpc # "wait"
     /\ exc \in {"loader", "IndexError"} \/ kcause = "convert") =>
        /\ kpc = "done"
        /\ IsPlaceholder
        /\ nattempts = attempt + 1
        /\ naps = <<>> => nattempts = 1

\* the loader failed, not by a timeout, on the attempt after a timeout
C10_Witness ==
    /\ op = "kql2df" /\ kpc = "done" /\ exc = "loader"
    /\ nattempts = 2

\* ------------------------------------------------ further query properties
\* the position of workspace w in ascending order
RankOf(w) == Cardinality({v \in Range(workspaces) : v <= w})

\* the number of the batch that slicing the sorted list puts w in
BatchOf(w) == (RankOf(w) - 1) \div chunkSize

\* api.py, grouped first, the query is over: the grouped call failed and of
\* the individual calls exactly the one for workspace b failed
OneBad(b) ==
    /\ InApi /\ group_queries /\ pc = "done"
    /\ gst \in {"timeout", "fatal"}
    /\ \A i \in DOMAIN futures : futures[i].st = "ok" <=> futures[i].target # <<b>>

\* C15 as stated: with one misbehaving workspace among more than chunkSize,
\* only the workspaces of its batch are queried individually.
C15_Original ==
    \A b \in Range(workspaces) :
        (OneBad(b) /\ Len(workspaces) > chunkSize) =>
            \A i \in DOMAIN futures : BatchOf(futures[i].target[1]) = BatchOf(b)

\* C15 amended: with grouped-first enabled one misbehaving workspace degrades
\* the whole query: the one grouped call names every workspace, so when it
\* fails every workspace, those beyond chunkSize too, is queried individually
\* once; the rows of every other workspace are returned, stamped, in list
\* order, and only the rows of the misbehaving workspace are missing.
C15_WholeQueryDegrades ==
    \A b \in Range(workspaces) :
        OneBad(b) =>
            /\ ngroup = 1
            /\ nindiv = Len(workspaces)
            /\ \A w \in Range(workspaces) : \E i \in DOMAIN futures : futures[i].target = <<w>>
            /\ results = Concat([i \in DOMAIN workspaces |->
                                   IF workspaces[i] = b THEN <<>>
                                   ELSE [k \in 1..NRows(workspaces[i]) |->
                                            Stamped(workspaces[i], k)]])

\* more than chunkSize workspaces, the first listed one misbehaves, and a
\* workspace of the other batch has rows in the result
C15_Witness ==
    /\ Len(workspaces) > chunkSize
    /\ OneBad(workspaces[1])
    /\ \E i \in DOMAIN results : BatchOf(results[i].ws) # BatchOf(workspaces[1])

\* C16: one query over N workspaces issues at most ceil(N / chunkSize) grouped
\* calls and at most N individual calls, at most one for each workspace,
\* whatever calls fail.
C16_CallCountBound ==
    /\ ngroup <= CeilDiv(Len(workspaces), chunkSize)
    /\ nindiv <= Len(workspaces)
    /\ InApi =>
         /\ nindiv = Cardinality({i \in DOMAIN futures : futures[i].st # "queued"})
         /\ \A i, j \in DOMAIN futures : i # j => futures[i].target # futures[j].target

\* a query whose grouped call and two individual calls failed, in both ways
C16_Witness ==
    /\ op = "api" /\ pc = "done" /\ ngroup = 1 /\ nindiv = Len(workspaces)
    /\ \E i, j \in DOMAIN futures : futures[i].st = "timeout" /\ futures[j].st = "fatal"

\* C19: the chunks of main.py, one after the other, are the workspaces in
\* ascending order; every chunk but the last has exactly chunkSize members
\* and the last has at least one; an empty list gives no chunk and no error.
C19_SlicesOfSorted ==
    Chunked =>
        /\ Concat(chunks) = AscOf(Range(workspaces))
        /\ \A j \in DOMAIN chunks :
             IF j < Len(chunks) THEN Len(chunks[j]) = chunkSize
             ELSE Len(chunks[j]) \in 1..chunkSize
        /\ workspaces = <<>> => (chunks = <<>> /\ pc # "raised")

\* a descending list sliced into a full chunk and a smaller last one
C19_Witness ==
    /\ Chunked /\ Len(chunks) = 2
    /\ Len(chunks[1]) = chunkSize /\ Len(chunks[2]) < chunkSize
    /\ workspaces[1] > workspaces[2]

\* C20: after any failure of the grouped call, timeout or other, api.py is on
\* the per-workspace path: nothing is raised, the grouped call is not made
\* again, and the query ends with one individual call for every workspace.
C20_GroupFailureFallsBack ==
    (InApi /\ gst \in {"timeout", "fatal"}) =>
        /\ exc = "none"
        /\ ngroup = 1
        /\ pc \in {"submit", "fallback", "done", "idle"}
        /\ pc \in {"done", "idle"} =>
             /\ nindiv = Len(workspaces)
             /\ [i \in DOMAIN futures |-> futures[i].target] =
                    [i \in DOMAIN workspaces |-> <<workspaces[i]>>]

\* a grouped call failed otherwise than by a timeout and the query was
\* answered by the individual calls
C20_Witness ==
    /\ op = "api" /\ group_queries /\ gst = "fatal"
    /\ pc = "done" /\ results # <<>>

\* the stamped rows of the workspaces at positions 1..n whose individual
\* call succeeded, in list order
RowsOfSucceeded(n) ==
    Concat([i \in 1..n |->
              IF futures[i].st = "ok"
              THEN [k \in 1..NRows(workspaces[i]) |-> Stamped(workspaces[i], k)]
              ELSE <<>>])

\* C21: on the fallback path, whichever individual calls fail, the rows
\* returned are exactly the rows of the workspaces whose call succeeded: a
\* failed workspace contributes none and leaves the others' rows as they are.
C21_FailedExcluded ==
    (FellBack /\ pc = "done") =>
        /\ Len(futures) = Len(workspaces)
        /\ results = RowsOfSucceeded(Len(workspaces))

\* a fallback where the call of a workspace that holds rows failed and a
\* later workspace's rows were returned
C21_Witness ==
    /\ FellBack /\ pc = "done" /\ Len(futures) = MaxFallbackWs
    /\ \E j, l \in DOMAIN futures :
         /\ j < l
         /\ futures[j].st \in {"timeout", "fatal"} /\ NRows(workspaces[j]) > 0
         /\ futures[l].st = "ok" /\ NRows(workspaces[l]) > 0

\* the call has returned or raised
Settled(f) == f.st = "ok" \/ f.st = "timeout" \/ f.st = "fatal"

\* C22: on the fallback path the rows are concatenated in workspace order
\* whatever the order in which the calls complete: at every moment the rows
\* gathered are those of the calls consumed so far, in list order, every call
\* consumed had completed, and at the return every call has completed.
C22_WorkspaceOrder ==
    FellBack =>
        /\ pc = "fallback" =>
             /\ results = RowsOfSucceeded(nxt - 1)
             /\ \A i \in 1..(nxt - 1) : Settled(futures[i])
        /\ pc = "done" =>
             /\ \A i \in DOMAIN futures : Settled(futures[i])
             /\ \A i, j \in DOMAIN results :
                  i < j => \E a, b \in DOMAIN workspaces :
                             /\ a <= b
                             /\ workspaces[a] = results[i].ws
                             /\ workspaces[b] = results[j].ws

\* the last call completed, with rows, while the one before it is still
\* running and awaited
C22_Witness ==
    /\ FellBack /\ pc = "fallback" /\ Len(futures) = MaxFallbackWs
    /\ nxt = Len(futures) - 1
    /\ futures[nxt].st = "running"
    /\ futures[nxt + 1].st = "ok"
    /\ NRows(workspaces[nxt + 1]) > 0

C24_Original ==
    op = "main" =>
        \A i, j \in DOMAIN futures :
            (i < j /\ futures[j].st # "queued") => futures[i].st \notin {"queued", "running"}

\* C24 amended: main.py hands the calls for all batches to the worker pool at
\* once, where they start in batch order and may be in flight together; only
\* their results are consumed one after the other, in batch order, each after
\* its call has completed.
C24_SubmittedAtOnceConsumedInOrder ==
    (op = "main" /\ pc = "map") =>
        /\ [i \in DOMAIN futures |-> futures[i].target] = chunks
        /\ \A i, j \in DOMAIN futures :
             (i < j /\ futures[j].st # "queued") => futures[i].st # "queued"
        /\ \A i \in 1..(nxt - 1) : futures[i].st \in {"ok", "none"}
        /\ results = Concat([i \in 1..(nxt - 1) |->
                                IF futures[i].st = "ok" THEN Backend(chunks[i]) ELSE <<>>])

\* the calls for both batches in flight at the same time
C24_Witness ==
    /\ op = "main" /\ pc = "map" /\ Len(futures) = 2
    /\ futures[1].st = "running" /\ futures[2].st = "running"

\* api.py has decided between the grouped call and the individual calls
PastBranch == InApi /\ pc \in {"group", "submit", "fallback", "done"}

\* C25: for a query (not a dry run) of a non-empty list, the grouped call
\* naming the whole list is issued exactly when group_queries is true or the
\* list has exactly one workspace; with group_queries false and two or more
\* workspaces there is no grouped call and each workspace gets one individual
\* call straight away.
C25_GroupedIffGroupFirstOrSingle ==
    (PastBranch /\ ~dry_run /\ workspaces # <<>>) =>
        IF group_queries \/ Len(workspaces) = 1
        THEN ngroup = 1 /\ gst # "none"
        ELSE /\ ngroup = 0 /\ gst = "none"
             /\ pc # "group"
             /\ pc = "done" => nindiv = Len(workspaces)

\* two or more workspaces answered without a grouped call
C25_Witness ==
    /\ op = "api" /\ pc = "done" /\ ~group_queries /\ ~dry_run
    /\ Len(workspaces) >= 2
    /\ ngroup = 0 /\ nindiv = Len(workspaces)
    /\ results # <<>>

\* the query text was loaded and a dry run went through the branch
DryRan == op = "api" /\ dry_run /\ pc \notin {"start", "branch"} /\ exc \notin {"loader", "ReadTimeout"}

\* C30 as stated: a dry run of any workspace list, with any group_queries,
\* issues no call and returns the command text naming every workspace.
C30_Original ==
    DryRan =>
        /\ ngroup = 0 /\ nindiv = 0
        /\ pc = "done"
        /\ cmdtext = <<"az", query, timespan>> \o workspaces

\* C30 amended: a dry run issues no call for any workspace list and any
\* group_queries; for a non-empty list it returns the command text naming
\* every workspace, and for an empty list it raises IndexError.
C30_DryRunNoCalls ==
    (op = "api" /\ dry_run) =>
        /\ ngroup = 0 /\ nindiv = 0
        /\ gst = "none" /\ futures = <<>> /\ results = <<>>
        /\ DryRan =>
             IF workspaces = <<>>
             THEN pc = "raised" /\ exc = "IndexError" /\ cmdtext = <<>>
             ELSE pc = "done" /\ cmdtext = <<"az", query, timespan>> \o workspaces

\* a dry run with group_queries false over more than chunkSize workspaces
C30_Witness ==
    /\ DryRan /\ ~group_queries /\ pc = "done"
    /\ Len(workspaces) > chunkSize
    /\ Len(cmdtext) > Len(workspaces)

\* the waits taken so far are 1, 3, 5, ... and there is one for every attempt
\* but the one in progress or the last
BackoffSoFar ==
    /\ naps = [i \in 1..Len(naps) |-> 2 * i - 1]
    /\ Len(naps) = attempt
    /\ Len(naps) = IF kpc = "enter" THEN nattempts ELSE nattempts - 1

\* C29: kql2df sleeps 1 + attempt*2 seconds with attempt counted from 0, so
\* the waits are 1, 3, 5, 7, ...; a wait is taken only after an attempt that
\* ended in ReadTimeout and is followed by the next attempt, so there is none
\* before the first attempt and none after the last.
C29_BackoffSchedule ==
    [][(op = "kql2df") =>
          /\ BackoffSoFar'
          /\ naps' # naps =>
                /\ kpc = "wait" /\ pc = "raised" /\ exc = "ReadTimeout"
                /\ naps' = Append(naps, 1 + 2 * Len(naps))
                /\ kpc' = "enter"
          /\ kpc' \in {"done", "raised"} => naps' = naps]_vars

\* the third attempt returned rows after waits of 1 and 3 seconds
C29_Witness ==
    /\ op = "kql2df" /\ kpc = "done" /\ kcause = "rows"
    /\ nattempts = 3 /\ naps = <<1, 3>>

\* ------------------------------------------ ingest_datalake_hot properties
\* the ingest queries whose adx_query raises / returns
FailedJobs == {q \in DOMAIN adx : adx[q] = "fatal"}

SucceededJobs == DOMAIN adx \ FailedJobs

\* the queries were loaded and shuffled
Shuffled == ipc \notin {"idle", "start"} /\ iexc # "loader"

\* every future's outcome has been consulted
Collected == Shuffled /\ ipc \notin {"submit", "poll", "collect"}

\* the run has gone through pandas.concat
PastConcat == Collected /\ ipc # "concat"

\* the queries whose rows are in the concatenated table
Contributors == {df.table[i].query : i \in DOMAIN df.table}

\* C11 as stated: for N ingest jobs of which f fail, in every order and under
\* every interleaving, the run records exactly the f failures and builds the
\* aggregate table from exactly the tables of the N - f jobs that succeeded.
C11_Original ==
    PastConcat =>
        /\ Range(errors) = FailedJobs
        /\ Len(errors) = Cardinality(FailedJobs)
        /\ df # <<>>
        /\ Contributors = SucceededJobs

\* C12 as stated: a run never raises because of job failures; for every number
\* of failing jobs, all of them included, it completes with its summary.
C12_Original ==
    (Shuffled /\ ipc = "raised") => iexc = "adx_query"

\* C13: the shuffle neither drops nor duplicates a job; every job of the
\* shuffled list is submitted exactly once, in list order; and adx_query runs
\* at most once for a job: a job that failed is not run again.
C13_EachJobOnce ==
    Shuffled =>
        /\ Range(ingest_queries) = DOMAIN adx
        /\ Len(ingest_queries) = Cardinality(DOMAIN adx)
        /\ Len(ingest_futures) <= Len(ingest_queries)
        /\ \A i \in DOMAIN ingest_futures :
             /\ ingest_futures[i].query = ingest_queries[i]
             /\ ingest_futures[i].runs = IF ingest_futures[i].st = "queued" THEN 0 ELSE 1
        /\ ipc # "submit" => Len(ingest_futures) = Len(ingest_queries)

\* a finished run of more queries than workers, shuffled, whose failed job ran once
C13_Witness ==
    /\ ipc = "done" /\ Len(ingest_queries) > ingest_workers
    /\ ingest_queries[1] # 1
    /\ \E i \in DOMAIN ingest_futures :
         ingest_futures[i].st = "fatal" /\ ingest_futures[i].runs = 1

\* C14: a job's state only moves Pending -> Running and Running -> Succeeded
\* or Failed; it reaches no terminal state from Pending and never leaves one.
C14_JobStateMachine ==
    [][\A i \in DOMAIN ingest_futures :
          \/ ingest_futures'[i].st = ingest_futures[i].st
          \/ ingest_futures[i].st = "queued" /\ ingest_futures'[i].st = "running"
          \/ ingest_futures[i].st = "running" /\ ingest_futures'[i].st \in {"ok", "fatal"}]_vars

\* a finished run with a job that succeeded and a job that failed
C14_Witness ==
    /\ ipc = "done"
    /\ \E i, j \in DOMAIN ingest_futures :
         ingest_futures[i].st = "ok" /\ ingest_futures[j].st = "fatal"

\* the job is Succeeded or Failed
Terminal(f) == f.st = "ok" \/ f.st = "fatal"

RECURSIVE SumOver(_, _)
\* the sum of column c over the tables of the queries of S, in no order
SumOver(S, c) ==
    IF S = {} THEN 0
    ELSE LET q == CHOOSE x \in S : TRUE
         IN  SumCol(dataframe_from_result_table(adx_query(q)), c) + SumOver(S \ {q}, c)

\* C18: the recorded failures and the summed numeric columns depend on the
\* jobs and their outcomes only: in every shuffle order and every order of
\* completion the failures recorded are the failed jobs, each once, and the
\* sums are the sums over the jobs that succeeded.
C18_OrderIndependent ==
    Collected =>
        /\ Range(errors) = FailedJobs
        /\ Len(errors) = Cardinality(FailedJobs)
        /\ df # <<>> =>
             /\ df.sum.k = SumOver(SucceededJobs, "k")
             /\ df.sum.Count = SumOver(SucceededJobs, "Count")
        /\ ipc \in {"stats", "done"} => df # <<>>

\* a finished run, not in ascending order, with one failure and two tables
C18_Witness ==
    /\ ipc = "done"
    /\ \E i \in DOMAIN ingest_queries : ingest_queries[i] # i
    /\ Len(errors) = 1 /\ Len(ingest_results) = 2

\* C26 as stated: the polling loop is not left while some job is still
\* Pending or Running.
C26_Original ==
    [][(ipc = "poll" /\ ipc' = "collect") =>
          \A i \in DOMAIN ingest_futures : Terminal(ingest_futures[i])]_vars

\* C27: when every adx_query call returns or raises and every thread keeps
\* being scheduled, the run ends (done, or raised by the aggregation or a
\* later query) with every query submitted as a job and every job Succeeded
\* or Failed, whatever the other jobs did.
C27_EveryJobSettles ==
    <>[](/\ ipc \in {"done", "raised"}
         /\ iexc # "loader" =>
              /\ Len(ingest_futures) = Len(ingest_queries)
              /\ \A i \in DOMAIN ingest_futures : Terminal(ingest_futures[i]))

\* the first job to be submitted failed and the jobs queued behind it, more
\* than the pool has workers, all succeeded
C27_Witness ==
    /\ ipc = "done"
    /\ Len(ingest_futures) > ingest_workers
    /\ ingest_futures[1].st = "fatal"
    /\ \A i \in 2..Len(ingest_futures) : ingest_futures[i].st = "ok"

\* C28: at most ingest_workers (6) jobs are Running at any moment, however
\* many were submitted.
C28_AtMostSixRunning ==
    Cardinality({i \in DOMAIN ingest_futures : ingest_futures[i].st = "running"}) <= 6

\* six jobs are Running and a seventh waits for a worker
C28_Witness ==
    /\ Len(ingest_futures) > ingest_workers
    /\ Cardinality({i \in DOMAIN ingest_futures : ingest_futures[i].st = "running"})
           = ingest_workers
    /\ \E i \in DOMAIN ingest_futures : ingest_futures[i].st = "queued"

\* the greatest of a non-empty set of numbers
Greatest(S) == CHOOSE x \in S : \A y \in S : y <= x

\* C31 as stated: when upload_results has ended, every path holds the
\* content with the greatest modified time among what it held before and
\* every result uploaded to it.
C31_Original ==
    upc = "done" =>
        \A p \in Paths :
            blob[p] = Greatest({blob0[p]} \cup
                               {mtime(upresults[i]) :
                                   i \in {j \in DOMAIN upresults : PathOf(upresults[j]) = p}})

\* sub occurs somewhere in s
Contains(s, sub) ==
    \E i \in 0..(Len(s) - Len(sub)) : SubSeq(s, i + 1, i + Len(sub)) = sub

\* C32 as stated: simple_query queries the first listed workspace whose
\* string form contains the name, and runs no query when none contains it.
C32_Original ==
    spc = "done" =>
        LET hits == {i \in DOMAIN listed : Contains(str(listed[i]), name)}
        IN  scalls = IF hits = {} THEN <<>>
                     ELSE <<<<listed[CHOOSE i \in hits : \A j \in hits : i <= j].customerId>>>>

\* C33 as stated: the sync loop of update_jira_issues ends for every finite
\* set of incidents, those where several incidents share the latest
\* TimeGenerated included.
C33_Original == <>(jpc \in {"done", "raised"})

\* the request's auth_token: the query parameter, else the cookie, else "DEBUG"
TokenOfRequest ==
    IF query_params # None THEN query_params
    ELSE IF cookies # None THEN cookies
    ELSE "DEBUG"

\* C34: a request reaches the endpoint only when its auth_token (query
\* parameter, else cookie, else "DEBUG") equals the configured API_TOKEN;
\* every other request is answered 403 and the endpoint is not called.
C34_OnlyWithToken ==
    (op = "authenticate_request") =>
        /\ (handled \/ apc \in {"call_next", "set_cookie"}) =>
               TokenOfRequest = secret_api_token
        /\ (apc = "responded" /\ TokenOfRequest # secret_api_token) =>
               response.status_code = 403 /\ ~handled
        /\ (apc = "responded" /\ response.status_code # 403) => handled

\* a second request, without the query parameter, answered by the endpoint
\* on the strength of its cookie
C34_Witness ==
    /\ apc = "responded" /\ handled /\ nrequests = 2
    /\ query_params = None
    /\ cookies = secret_api_token
    /\ response.status_code = 200

InitMain ==
    /\ op = "main"
    /\ workspaces \in WsInputs
    /\ query \in {<<"S">>, <<"https:">>}
    /\ timespan = "P7D"
    /\ group_queries = TRUE /\ dry_run = FALSE
    /\ gst = "none" /\ cmdtext = <<>>
    /\ rowSeed \in 0..MaxRows
    /\ tenantMode \in TenantModes
    /\ pc = "start" /\ exc = "none"
    /\ chunks = <<>> /\ futures = <<>> /\ nxt = 1 /\ results = <<>>
    /\ ngroup = 0 /\ nindiv = 0
    /\ queries = 1 /\ prevChunks = <<>>
    /\ KqlIdle
    /\ IngestIdle
    /\ ExtraIdle

Init == InitMain \/ InitApi \/ InitKql

Next ==
    \/ MainLoad \/ MainStart \/ MainFinish \/ MainCollect \/ MainAgain
    \/ ApiLoad \/ ApiBranch \/ ApiGroupReturn \/ ApiSubmit \/ ApiStart \/ ApiFinish
    \/ ApiCollect
    \/ KqlTry \/ KqlReturn \/ KqlExcept

Spec == Init /\ [][Next]_vars
====
